---------------------------- MODULE Spec2Model ----------------------------
(***************************************************************************)
(* The expense form of redovisa (src/redovisa/static/functions.js).        *)
(*                                                                         *)
(* The page holds a form "expense" with one row per line item              *)
(* ("<row>:amount", "<row>:account", "<row>:description"), an element      *)
(* "total" and a control "submit".  updateForm() recomputes the total and  *)
(* the disabled flag of the submit control; disableSubmitDefault() is the  *)
(* window.onload handler.                                                  *)
(*                                                                         *)
(* Strings are sequences of one-character strings, so that parseFloat and  *)
(* Number.prototype.toFixed are computed on the characters.  A JavaScript  *)
(* number is a record: [k |-> "num", v |-> n] is the finite number         *)
(* n / 10^Scale, [k |-> "inf", v |-> 1 or -1] is +-Infinity and            *)
(* [k |-> "nan"] is NaN.  The amounts the model types in (AmountInputs)    *)
(* are dyadic decimals with at most Scale fractional digits: on them       *)
(* double arithmetic is exact, so the fixed-point sums below are the sums  *)
(* the script computes.                                                    *)
(***************************************************************************)
EXTENDS Integers, Sequences, FiniteSets, TLC

VARIABLES
    rows,       \* the form's rows: <<[amount, account, description], ...>>
    totalText,  \* innerHTML of the element "total"
    disabled,   \* the disabled flag of the control "submit"
    phase,      \* "loading": window.onload not fired; "loaded": fired, no
                \* updateForm since; "validated": updateForm ran after it
    last        \* the last event processed: "none", "change" (a value was
                \* changed, its handler has not run yet), "updateForm",
                \* "rerun" (updateForm directly after updateForm),
                \* "disableSubmitDefault"

vars == <<rows, totalText, disabled, phase, last>>

---------------------------------------------------------------------------
(* Bounds *)

MaxRows == 2    \* rows of the rendered form
Scale == 3      \* fractional decimal digits a number of the model carries

---------------------------------------------------------------------------
(* Characters and strings *)

DigitChars == <<"0", "1", "2", "3", "4", "5", "6", "7", "8", "9">>

IsDigit(c) == \E i \in 1..10 : DigitChars[i] = c

DigitVal(c) == (CHOOSE i \in 1..10 : DigitChars[i] = c) - 1

RECURSIVE Pow10(_)
Pow10(n) == IF n = 0 THEN 1 ELSE 10 * Pow10(n - 1)

Abs(n) == IF n < 0 THEN -n ELSE n

Drop(s, n) == SubSeq(s, n + 1, Len(s))

StartsWith(s, p) == Len(s) >= Len(p) /\ SubSeq(s, 1, Len(p)) = p

InfinityLit == <<"I", "n", "f", "i", "n", "i", "t", "y">>

---------------------------------------------------------------------------
(* JavaScript numbers *)

Num(n) == [k |-> "num", v |-> n]
Inf(sign) == [k |-> "inf", v |-> sign]
NaN == [k |-> "nan", v |-> 0]

\* ToBoolean of a number: NaN, +0 and -0 are false.
ToBoolean(x) == x.k = "inf" \/ (x.k = "num" /\ x.v # 0)

\* x > 0
GreaterThanZero(x) == (x.k = "inf" /\ x.v = 1) \/ (x.k = "num" /\ x.v > 0)

\* x == 0
EqualsZero(x) == x.k = "num" /\ x.v = 0

\* a + b
Add(a, b) ==
    IF a.k = "nan" \/ b.k = "nan" THEN NaN
    ELSE IF a.k = "inf" /\ b.k = "inf"
         THEN (IF a.v = b.v THEN a ELSE NaN)
    ELSE IF a.k = "inf" THEN a
    ELSE IF b.k = "inf" THEN b
    ELSE Num(a.v + b.v)

---------------------------------------------------------------------------
(* parseFloat (ECMAScript 19.2.4): leading white space is skipped, then    *)
(* the longest prefix that is a StrDecimalLiteral is the value; NaN when   *)
(* there is none.  The characters of the model's inputs hold no exponent   *)
(* letter, so the ExponentPart of the grammar never starts.  -0 is the     *)
(* number 0 here: the script only tests it with ToBoolean and > 0, which   *)
(* do not tell the two zeros apart.                                        *)

RECURSIVE TrimStart(_)
TrimStart(s) ==
    IF s # <<>> /\ Head(s) = " " THEN TrimStart(Tail(s)) ELSE s

\* the length of the longest prefix of s made of decimal digits
RECURSIVE DigitRun(_)
DigitRun(s) ==
    IF s = <<>> \/ ~IsDigit(Head(s)) THEN 0 ELSE 1 + DigitRun(Tail(s))

\* the value of a sequence of decimal digits
RECURSIVE DigitsValue(_)
DigitsValue(d) ==
    IF d = <<>> THEN 0
    ELSE 10 * DigitsValue(SubSeq(d, 1, Len(d) - 1)) + DigitVal(d[Len(d)])

\* the fractional digits d as a count of 10^-Scale (digits past Scale are
\* cut; AmountInputs has none)
FracValue(d) ==
    LET kept == IF Len(d) > Scale THEN SubSeq(d, 1, Scale) ELSE d
    IN  DigitsValue(kept) * Pow10(Scale - Len(kept))

\* StrUnsignedDecimalLiteral at the start of r, with the sign already read
UnsignedLiteral(r, sign) ==
    IF StartsWith(r, InfinityLit) THEN Inf(sign)
    ELSE LET ni == DigitRun(r)
             rest == Drop(r, ni)
             nf == IF rest # <<>> /\ Head(rest) = "."
                   THEN DigitRun(Tail(rest)) ELSE 0
         IN  IF ni = 0 /\ nf = 0 THEN NaN
             ELSE Num(sign * (DigitsValue(SubSeq(r, 1, ni)) * Pow10(Scale)
                              + FracValue(SubSeq(rest, 2, nf + 1))))

parseFloat(string) ==
    LET t == TrimStart(string)
    IN  IF t # <<>> /\ Head(t) = "-" THEN UnsignedLiteral(Tail(t), -1)
        ELSE IF t # <<>> /\ Head(t) = "+" THEN UnsignedLiteral(Tail(t), 1)
        ELSE UnsignedLiteral(t, 1)

---------------------------------------------------------------------------
(* Number.prototype.toFixed (ECMAScript 21.1.3.3) for |x| < 10^21: n is    *)
(* the integer for which n / 10^f - x is closest to zero, the larger n on  *)
(* a tie, computed on -x with a leading "-" when x < 0.                    *)

RECURSIVE IntDigits(_)
IntDigits(n) ==
    IF n < 10 THEN <<DigitChars[n + 1]>>
    ELSE IntDigits(n \div 10) \o <<DigitChars[(n % 10) + 1]>>

RECURSIVE Zeros(_)
Zeros(n) == IF n <= 0 THEN <<>> ELSE <<"0">> \o Zeros(n - 1)

toFixed(x, f) ==
    IF x.k = "nan" THEN <<"N", "a", "N">>
    ELSE IF x.k = "inf"
         THEN (IF x.v < 0 THEN <<"-">> ELSE <<>>) \o InfinityLit
    ELSE LET s == IF x.v < 0 THEN <<"-">> ELSE <<>>
             a == Abs(x.v)
             unit == Pow10(Scale - f)
             n == (2 * a + unit) \div (2 * unit)
             m0 == IntDigits(n)
             m == IF Len(m0) <= f THEN Zeros(f + 1 - Len(m0)) \o m0 ELSE m0
             k == Len(m)
         IN  IF f = 0 THEN s \o m0
             ELSE s \o SubSeq(m, 1, k - f) \o <<".">> \o SubSeq(m, k - f + 1, k)

---------------------------------------------------------------------------
(* The values the model types into the form *)

\* amounts: empty, non-numeric, zero, positive, negative, a positive amount
\* with three fractional digits, and Infinity
AmountInputs ==
    { <<>>,
      <<"a">>,
      <<"0">>,
      <<"5">>,
      <<"-", "5">>,
      <<"0", ".", "1", "2", "5">>,
      InfinityLit }

\* accounts and descriptions: empty or not
TextInputs == { <<>>, <<"F">> }

BlankRow == [amount |-> <<>>, account |-> <<>>, description |-> <<>>]

\* what the markup may hold in the element "total" before any script runs
TotalMarkup == { <<>>, <<"0", ".", "0", "0">> }

---------------------------------------------------------------------------
(* updateForm, functions.js 1-27.  form[i] is row i - 1 of the page: the   *)
(* element of class "amount" at index i - 1 is the field "<i-1>:amount".   *)

FracDigits == 2

\* a variant: the running total starts from the total on display
InitialTotalCarried == parseFloat(totalText)

\* var total = 0;
InitialTotal == Num(0)

\* parseFloat of each value an amount field can hold, computed once
ParsedAmount == [s \in AmountInputs |-> parseFloat(s)]

\* a variant: the amount is added without the test of its value
AddAmountUnguarded(total, value) == Add(total, ParsedAmount[value])

\* if (parseFloat(amounts[i].value)) total += parseFloat(amounts[i].value);
AddAmount(total, value) ==
    IF ToBoolean(ParsedAmount[value]) THEN Add(total, ParsedAmount[value])
    ELSE total

\* for (let i = 0; i < amounts.length; i++) ...
RECURSIVE TotalLoop(_, _, _)
TotalLoop(form, i, total) ==
    IF i > Len(form) THEN total
    ELSE TotalLoop(form, i + 1, AddAmount(total, form[i].amount))

\* a variant: only the account is required
MissingInRowAccountOnly(r) ==
    IF GreaterThanZero(ParsedAmount[r.amount]) /\ r.account = <<>> THEN 1
    ELSE 0

\* a variant: the tests read amount >= 0
MissingInRowNonNegative(r) ==
    LET amount == ParsedAmount[r.amount]
        nonneg == GreaterThanZero(amount) \/ EqualsZero(amount)
    IN  (IF nonneg /\ r.account = <<>> THEN 1 ELSE 0)
        + (IF nonneg /\ r.description = <<>> THEN 1 ELSE 0)

\* a variant: the tests do not read the amount
MissingInRowUnguarded(r) ==
    (IF r.account = <<>> THEN 1 ELSE 0)
    + (IF r.description = <<>> THEN 1 ELSE 0)

\* the two tests of one row of the second loop
MissingInRow(r) ==
    LET amount == ParsedAmount[r.amount]
    IN  (IF GreaterThanZero(amount) /\ r.account = <<>> THEN 1 ELSE 0)
        + (IF GreaterThanZero(amount) /\ r.description = <<>> THEN 1 ELSE 0)

\* for (let row = 0; row < amounts.length; row++) ...
RECURSIVE MissingLoop(_, _, _)
MissingLoop(form, row, missing_required) ==
    IF row > Len(form) THEN missing_required
    ELSE MissingLoop(form, row + 1, missing_required + MissingInRow(form[row]))

\* a variant: the gate reads total <= 0
SubmitDisabledPositiveTotal(total, missing_required) ==
    ~GreaterThanZero(total) \/ missing_required > 0

\* a variant: the gate does not read the total
SubmitDisabledMissingOnly(total, missing_required) == missing_required > 0

\* if (total == 0 || missing_required > 0) disabled = true else false
SubmitDisabled(total, missing_required) ==
    EqualsZero(total) \/ missing_required > 0

\* the text updateForm writes into "total" for the form
TotalTextFor(form) == toFixed(TotalLoop(form, 1, InitialTotal), FracDigits)

\* the disabled flag updateForm gives "submit" for the form
DisabledFor(form) ==
    SubmitDisabled(TotalLoop(form, 1, InitialTotal), MissingLoop(form, 1, 0))

\* a variant: updateForm clears the amounts that do not parse
FormAfterUpdateNormalised(form) ==
    [i \in DOMAIN form |->
        IF ParsedAmount[form[i].amount].k = "nan"
        THEN [form[i] EXCEPT !.amount = <<>>] ELSE form[i]]

\* updateForm reads the fields of the form and assigns to none of them
FormAfterUpdate(form) == form

updateForm ==
    /\ totalText' = TotalTextFor(rows)
    /\ disabled' = DisabledFor(rows)
    /\ rows' = FormAfterUpdate(rows)
    /\ phase' = IF phase = "loaded" THEN "validated" ELSE phase
    /\ last' = IF last \in {"updateForm", "rerun"} THEN "rerun"
               ELSE "updateForm"

---------------------------------------------------------------------------
(* disableSubmitDefault, functions.js 29-33: the window.onload handler *)

\* a variant: the handler validates the form instead of disabling
DisabledOnLoadValidated == DisabledFor(rows)

\* a variant: the handler leaves the flag as the markup set it
DisabledOnLoadKept == disabled

\* document.getElementById("submit").disabled = true;
DisabledOnLoad == TRUE

disableSubmitDefault ==
    /\ phase = "loading"
    /\ last # "change"
    /\ disabled' = DisabledOnLoad
    /\ phase' = "loaded"
    /\ last' = "disableSubmitDefault"
    /\ UNCHANGED <<rows, totalText>>

---------------------------------------------------------------------------
(* The user changes one field.  The page's markup calls updateForm on the  *)
(* change, and it runs to completion before any other event: while         *)
(* last = "change" only updateForm is enabled.                             *)

ChangeAmount(r, v) ==
    /\ last # "change"
    /\ v # rows[r].amount
    /\ rows' = [rows EXCEPT ![r].amount = v]
    /\ last' = "change"
    /\ UNCHANGED <<totalText, disabled, phase>>

ChangeAccount(r, v) ==
    /\ last # "change"
    /\ v # rows[r].account
    /\ rows' = [rows EXCEPT ![r].account = v]
    /\ last' = "change"
    /\ UNCHANGED <<totalText, disabled, phase>>

ChangeDescription(r, v) ==
    /\ last # "change"
    /\ v # rows[r].description
    /\ rows' = [rows EXCEPT ![r].description = v]
    /\ last' = "change"
    /\ UNCHANGED <<totalText, disabled, phase>>

---------------------------------------------------------------------------

Init ==
    /\ \E n \in 1..MaxRows : rows = [i \in 1..n |-> BlankRow]
    /\ totalText \in TotalMarkup
    /\ disabled \in BOOLEAN
    /\ phase = "loading"
    /\ last = "none"

Next ==
    \/ disableSubmitDefault
    \/ updateForm
    \/ \E r \in 1..Len(rows) : \E v \in AmountInputs : ChangeAmount(r, v)
    \/ \E r \in 1..Len(rows) : \E v \in TextInputs : ChangeAccount(r, v)
    \/ \E r \in 1..Len(rows) : \E v \in TextInputs : ChangeDescription(r, v)

Spec == Init /\ [][Next]_vars

TypeOK ==
    /\ Len(rows) \in 1..MaxRows
    /\ \A i \in 1..Len(rows) :
          /\ rows[i].amount \in AmountInputs
          /\ rows[i].account \in TextInputs
          /\ rows[i].description \in TextInputs
    /\ disabled \in BOOLEAN
    /\ phase \in {"loading", "loaded", "validated"}
    /\ last \in {"none", "change", "updateForm", "rerun",
                 "disableSubmitDefault"}

---------------------------------------------------------------------------
(* The vocabulary of the properties *)

\* updateForm was the last event processed: what is on display is its output
Recomputed == last \in {"updateForm", "rerun"}

\* the amount of row r parses as a number
ParsesAsNumber(r) == ParsedAmount[r.amount].k # "nan"

\* the sum of the amounts of the rows whose amount parses as a number
RECURSIVE SumParseable(_)
SumParseable(form) ==
    IF form = <<>> THEN Num(0)
    ELSE LET r == form[Len(form)]
         IN  Add(SumParseable(SubSeq(form, 1, Len(form) - 1)),
                 IF ParsesAsNumber(r) THEN ParsedAmount[r.amount] ELSE Num(0))

TotalIsZero(form) == SumParseable(form) = Num(0)

TotalIsNegative(form) ==
    \/ SumParseable(form).k = "num" /\ SumParseable(form).v < 0
    \/ SumParseable(form) = Inf(-1)

TotalIsPositive(form) ==
    \/ SumParseable(form).k = "num" /\ SumParseable(form).v > 0
    \/ SumParseable(form) = Inf(1)

\* the amount of row r is a number > 0
PositiveAmount(r) ==
    \/ ParsedAmount[r.amount].k = "num" /\ ParsedAmount[r.amount].v > 0
    \/ ParsedAmount[r.amount] = Inf(1)

\* some row with amount > 0 has an empty account or an empty description
RequiredMissing(form) ==
    \E i \in 1..Len(form) :
        /\ PositiveAmount(form[i])
        /\ (form[i].account = <<>> \/ form[i].description = <<>>)

\* one hundredth, in units of 10^-Scale
Hundredth == Pow10(Scale - FracDigits)

\* the forms that differ from form only in the account and description of
\* rows whose amount is not > 0
ExemptVariants(form) ==
    { [i \in 1..Len(form) |->
          IF PositiveAmount(form[i]) THEN form[i]
          ELSE [form[i] EXCEPT !.account = c[i][1], !.description = c[i][2]]] :
      c \in [1..Len(form) -> TextInputs \X TextInputs] }

---------------------------------------------------------------------------
(* C1 as stated: after updateForm the total on display is the sum of the   *)
(* amounts of the rows whose amount parses as a number.                    *)
C1_DisplayIsExactSum ==
    Recomputed => parseFloat(totalText) = SumParseable(rows)

(* C1, amended: after updateForm the total on display is that sum rounded  *)
(* to two fractional digits: a multiple of 0.01 at most 0.005 away from    *)
(* the sum (so the sum itself when it has at most two fractional digits),  *)
(* and Infinity when the sum is infinite; rows whose amount is empty or    *)
(* non-numeric contribute zero.                                            *)
C1_DisplayIsRoundedSum ==
    Recomputed =>
        LET d == parseFloat(totalText)
            t == SumParseable(rows)
        IN  IF t.k = "num"
            THEN /\ d.k = "num"
                 /\ d.v % Hundredth = 0
                 /\ 2 * Abs(d.v - t.v) <= Hundredth
            ELSE d = t

C1_Witness ==
    /\ Recomputed
    /\ Len(rows) = 2
    /\ rows[1].amount = <<"a">>
    /\ rows[2].amount = <<"0", ".", "1", "2", "5">>
    /\ totalText = <<"0", ".", "1", "3">>

(* C2: after updateForm the submit control is disabled whenever the total  *)
(* is zero or some row with amount > 0 has an empty account or an empty    *)
(* description.                                                            *)
C2_DisabledWhenZeroOrMissing ==
    (Recomputed /\ (TotalIsZero(rows) \/ RequiredMissing(rows))) => disabled

C2_Witness ==
    /\ Recomputed
    /\ Len(rows) = 2
    /\ TotalIsPositive(rows)
    /\ rows[1] = [amount |-> <<"5">>, account |-> <<"F">>,
                  description |-> <<>>]
    /\ disabled

(* C3: after updateForm the submit control is enabled when the total is    *)
(* not zero and every row with amount > 0 has its account and its          *)
(* description.                                                            *)
C3_EnabledWhenValid ==
    (Recomputed /\ ~TotalIsZero(rows) /\ ~RequiredMissing(rows)) => ~disabled

C3_Witness ==
    /\ Recomputed
    /\ Len(rows) = 2
    /\ rows[1] = [amount |-> <<"5">>, account |-> <<"F">>,
                  description |-> <<"F">>]
    /\ rows[2] = [amount |-> <<"0">>, account |-> <<>>, description |-> <<>>]
    /\ ~disabled

(* C4: the account and description of a row whose amount is <= 0 or        *)
(* non-numeric have no effect on the submit state: every form that differs *)
(* from the current one only in those fields gets the same disabled flag   *)
(* from updateForm.                                                        *)
C4_ExemptRowsDoNotBlock ==
    Recomputed => \A f \in ExemptVariants(rows) : DisabledFor(f) = disabled

C4_Witness ==
    /\ Recomputed
    /\ Len(rows) = 2
    /\ rows[1] = [amount |-> <<"-", "5">>, account |-> <<>>,
                  description |-> <<>>]
    /\ rows[2] = [amount |-> <<"0", ".", "1", "2", "5">>,
                  account |-> <<"F">>, description |-> <<"F">>]
    /\ ~disabled

(* C5: once window.onload has run disableSubmitDefault the submit control  *)
(* is disabled, whatever the form holds, in every state up to the first    *)
(* updateForm that follows.                                                *)
C5_DisabledUntilFirstUpdate == phase = "loaded" => disabled

C5_Witness ==
    /\ phase = "loaded"
    /\ last = "change"
    /\ rows = << [amount |-> <<"5">>, account |-> <<"F">>,
                  description |-> <<"F">>] >>
    /\ disabled

(* C6: the gate tests the total for being non-zero, not positive: after    *)
(* updateForm with a negative total and no row with amount > 0 lacking a   *)
(* required field, the submit control is enabled.                          *)
C6_NegativeTotalEnables ==
    (Recomputed /\ TotalIsNegative(rows) /\ ~RequiredMissing(rows))
        => ~disabled

C6_Witness ==
    /\ Recomputed
    /\ rows = << [amount |-> <<"-", "5">>, account |-> <<>>,
                  description |-> <<>>] >>
    /\ totalText = <<"-", "5", ".", "0", "0">>
    /\ ~disabled

(* C7 as stated: whenever the submit control is enabled after updateForm,  *)
(* the total is greater than zero and every row with amount > 0 has its    *)
(* account and its description.                                            *)
C7_EnabledOnlyWhenPositive ==
    (Recomputed /\ ~disabled)
        => (TotalIsPositive(rows) /\ ~RequiredMissing(rows))

(* C7, amended: whenever the submit control is enabled after updateForm,   *)
(* the total is not zero (it may be negative) and every row with           *)
(* amount > 0 has its account and its description.                         *)
C7_EnabledOnlyWhenNonZero ==
    (Recomputed /\ ~disabled)
        => (~TotalIsZero(rows) /\ ~RequiredMissing(rows))

C7_Witness ==
    /\ Recomputed
    /\ Len(rows) = 2
    /\ rows[1].amount = <<"0", ".", "1", "2", "5">>
    /\ rows[2].amount = <<"-", "5">>
    /\ TotalIsNegative(rows)
    /\ ~disabled

(* C8: after page load, with no change waiting for its updateForm, the     *)
(* submit control is enabled only while the form has a non-zero total and  *)
(* no row with amount > 0 lacks its account or its description.            *)
C8_EnabledOnlyWhenSubmittable ==
    (phase # "loading" /\ last # "change" /\ ~disabled)
        => (~TotalIsZero(rows) /\ ~RequiredMissing(rows))

C8_Witness ==
    /\ phase = "validated"
    /\ last # "change"
    /\ ~disabled
    /\ Len(rows) = 2
    /\ PositiveAmount(rows[1])
    /\ PositiveAmount(rows[2])

(* C9: updateForm carries nothing from one run to the next: what it leaves *)
(* on display is determined by the rows alone, whatever the events before, *)
(* and run again with no change in between it leaves the total on display  *)
(* and the disabled flag as they are.                                      *)
C9_UpdateFormStateless ==
    /\ [](Recomputed => /\ totalText = TotalTextFor(rows)
                        /\ disabled = DisabledFor(rows))
    /\ [][(Recomputed /\ last' = "rerun")
             => (totalText' = totalText /\ disabled' = disabled)]_vars

C9_Witness ==
    /\ last = "rerun"
    /\ phase = "validated"
    /\ Len(rows) = 2
    /\ totalText = <<"5", ".", "1", "3">>
    /\ ~disabled

(* C10: updateForm leaves every row's amount, account and description      *)
(* unchanged; disableSubmitDefault leaves the rows and the total on        *)
(* display unchanged.                                                      *)
C10_Frame ==
    [][/\ (last' \in {"updateForm", "rerun"} /\ last' # last)
            => rows' = rows
       /\ (last = "rerun" /\ last' = "rerun") => rows' = rows
       /\ (phase = "loading" /\ phase' = "loaded")
            => (rows' = rows /\ totalText' = totalText)]_vars

C10_Witness ==
    /\ phase = "validated"
    /\ last = "updateForm"
    /\ Len(rows) = 2
    /\ rows[1].amount = <<"a">>
    /\ rows[2].amount = <<"5">>
    /\ totalText = <<"5", ".", "0", "0">>

===========================================================================
